---- MODULE Spec2Model ----
(***************************************************************************)
(* Model of app.py: a presence timer that appends one segment line per     *)
(* active interval to a per-day log file and one summary line per day.     *)
(*                                                                         *)
(* Time is a datetime [s, us]: whole seconds since 00:00:00 of day 0 and   *)
(* microseconds.  Day 0 is 2023-03-21 (the date used by the tests).        *)
(* Text is a sequence of code points; a log line is a record of the        *)
(* text fields the code writes between its fixed words.                    *)
(***************************************************************************)
EXTENDS Integers, Sequences, FiniteSets, TLC

\* ------------------------------------------------------------------ bounds
MaxDay == 1          \* the clock runs over days 0..MaxDay
MaxSessions == 1     \* toggle-on events per behaviour
MaxSetBacks == 1     \* times the wall clock is set back per behaviour
MaxLines == 3        \* length of the pre-existing file content tried by SpecSum
MaxLogDay == 2       \* days 0..MaxLogDay of the timestamps tried by SpecLog
MaxMwDay == 2        \* the clock of SpecMw runs over days 0..MaxMwDay
MaxFmtHours == 100   \* the largest hour count of the durations tried by SpecFmt
MaxYears == 1        \* SpecJalali tries the years y..y + MaxYears for each y of FirstYears
MaxTokenLen == 3     \* the longest duration token tried by SpecParse

\* ------------------------------------------------------- program constants
SecPerDay == 86400
SecPerHour == 3600
SecPerMin == 60
UsPerSec == 1000000
PersianZero == 1776
AsciiZero == 48
Colon == 58
Minus == 45
Plus == 43
LetterX == 120

\* ------------------------------------------------------------------- time
Time(s, us) == [s |-> s, us |-> us]
None == [s |-> -1, us |-> 0]

Before(a, b) == a.s < b.s \/ (a.s = b.s /\ a.us < b.us)
AtOrAfter(a, b) == ~Before(a, b)
MinT(a, b) == IF Before(b, a) THEN b ELSE a

\* datetime.date(): the day index
DateOf(t) == t.s \div SecPerDay

\* end - start as a normalised timedelta (0 <= us < 10^6)
TimeDelta(end, start) ==
    IF end.us >= start.us
    THEN [s |-> end.s - start.s, us |-> end.us - start.us]
    ELSE [s |-> end.s - start.s - 1, us |-> end.us - start.us + UsPerSec]

\* int(td.total_seconds()): truncation toward zero
TotalSecondsInt(td) ==
    IF td.s >= 0 \/ td.us = 0 THEN td.s ELSE td.s + 1

\* td.total_seconds() < 1
LessThanOneSecond(td) == td.s < 1

\* cur + 1 day
NextMidnight_noreplace(cur) == Time(cur.s + SecPerDay, cur.us)

\* (cur + 1 day).replace(hour=0, minute=0, second=0, microsecond=0)
NextMidnight(cur) == Time((DateOf(cur) + 1) * SecPerDay, 0)

\* ------------------------------------------------------------------- text
RECURSIVE DecStr(_)
DecStr(n) == IF n < 10 THEN <<AsciiZero + n>>
             ELSE DecStr(n \div 10) \o <<AsciiZero + (n % 10)>>

\* f"{n:02d}"
Pad2(n) == IF n < 10 THEN <<AsciiZero>> \o DecStr(n) ELSE DecStr(n)

IsAsciiDigit(c) == c >= AsciiZero /\ c <= AsciiZero + 9
IsPersianDigit(c) == c >= PersianZero /\ c <= PersianZero + 9

\* str.translate(PERSIAN_DIGITS)
PERSIAN_DIGITS(str) ==
    [i \in 1..Len(str) |->
        IF IsAsciiDigit(str[i]) THEN str[i] - AsciiZero + PersianZero ELSE str[i]]

_to_ascii_digits(str) ==
    [i \in 1..Len(str) |->
        IF IsPersianDigit(str[i]) THEN str[i] - PersianZero + AsciiZero ELSE str[i]]

\* fmt_hm: the legacy H:MM rendering, whole minutes rounded down
fmt_hm(td, fa) ==
    LET total_minutes == td.s \div SecPerMin
        h == total_minutes \div 60
        m == total_minutes % 60
        out == DecStr(h) \o <<Colon>> \o Pad2(m)
    IN  IF fa THEN PERSIAN_DIGITS(out) ELSE out

fmt_hms_nomod(td, fa) ==
    LET total_seconds == TotalSecondsInt(td)
        h == total_seconds \div SecPerHour
        m == total_seconds \div SecPerMin
        s == total_seconds % SecPerMin
        out == DecStr(h) \o <<Colon>> \o Pad2(m) \o <<Colon>> \o Pad2(s)
    IN  IF fa THEN PERSIAN_DIGITS(out) ELSE out

fmt_hms(td, fa) ==
    LET total_seconds == TotalSecondsInt(td)
        h == total_seconds \div SecPerHour
        m == (total_seconds % SecPerHour) \div SecPerMin
        s == total_seconds % SecPerMin
        out == DecStr(h) \o <<Colon>> \o Pad2(m) \o <<Colon>> \o Pad2(s)
    IN  IF fa THEN PERSIAN_DIGITS(out) ELSE out

\* datetime.strftime('%H:%M:%S'): the time of day, microseconds dropped
strftime_HMS(t) ==
    LET sod == t.s % SecPerDay
    IN  Pad2(sod \div SecPerHour) \o <<Colon>>
        \o Pad2((sod % SecPerHour) \div SecPerMin) \o <<Colon>>
        \o Pad2(sod % SecPerMin)

\* str.split(':')
RECURSIVE SplitColon(_)
SplitColon(str) ==
    IF \A i \in 1..Len(str) : str[i] # Colon THEN <<str>>
    ELSE LET k == CHOOSE i \in 1..Len(str) :
                      str[i] = Colon /\ \A j \in 1..(i - 1) : str[j] # Colon
         IN  <<SubSeq(str, 1, k - 1)>> \o SplitColon(SubSeq(str, k + 1, Len(str)))

\* a non-empty string of ASCII digits
IsDigits(str) == Len(str) > 0 /\ \A i \in 1..Len(str) : IsAsciiDigit(str[i])

\* int(str) succeeds: an optional sign and ASCII digits (the strings tried
\* hold no blank, no underscore and no digit of a third script)
IsInt_any(str) == TRUE

IsInt(str) ==
    IF Len(str) > 1 /\ str[1] \in {Minus, Plus} THEN IsDigits(Tail(str)) ELSE IsDigits(str)

RECURSIVE DigitsValue(_)
DigitsValue(str) ==
    IF Len(str) = 0 THEN 0
    ELSE DigitsValue(SubSeq(str, 1, Len(str) - 1)) * 10 + (str[Len(str)] - AsciiZero)

\* int(str)
IntOf(str) ==
    IF Len(str) > 1 /\ str[1] = Minus THEN 0 - DigitsValue(Tail(str))
    ELSE IF Len(str) > 1 /\ str[1] = Plus THEN DigitsValue(Tail(str))
    ELSE DigitsValue(str)

\* ------------------------------------------------------- Jalali date label
g_days_in_month == <<31, 28, 31, 30, 31, 30, 31, 31, 30, 31, 30, 31>>
j_days_in_month == <<31, 31, 31, 31, 31, 31, 30, 30, 30, 30, 30, 29>>

RECURSIVE SumFirst(_, _)
SumFirst(tbl, n) == IF n = 0 THEN 0 ELSE SumFirst(tbl, n - 1) + tbl[n]

IsGregorianLeap(g_y) == (g_y % 4 = 0 /\ g_y % 100 # 0) \/ (g_y % 400 = 0)

\* the month loop of gregorian_to_jalali: <<jm, jd>> for a day number in the year
JalaliMonthDay_zero(i, j_day_no) == <<i, j_day_no>>

RECURSIVE JalaliMonthDay(_, _)
JalaliMonthDay(i, j_day_no) ==
    IF i = 11 THEN <<12, j_day_no + 1>>
    ELSE IF j_day_no < j_days_in_month[i + 1] THEN <<i + 1, j_day_no + 1>>
    ELSE JalaliMonthDay(i + 1, j_day_no - j_days_in_month[i + 1])

gregorian_to_jalali(g_y, g_m, g_d) ==
    LET gy == g_y - 1600
        gm == g_m - 1
        gd == g_d - 1
        g0 == 365 * gy + ((gy + 3) \div 4) - ((gy + 99) \div 100) + ((gy + 399) \div 400)
        g1 == g0 + SumFirst(g_days_in_month, gm)
        g2 == IF gm > 1 /\ IsGregorianLeap(g_y) THEN g1 + 1 ELSE g1
        g_day_no == g2 + gd
        j0 == g_day_no - 79
        j_np == j0 \div 12053
        j1 == j0 % 12053
        jy0 == 979 + 33 * j_np + 4 * (j1 \div 1461)
        j2 == j1 % 1461
        jy == IF j2 >= 366 THEN jy0 + ((j2 - 1) \div 365) ELSE jy0
        j3 == IF j2 >= 366 THEN (j2 - 1) % 365 ELSE j2
        md == JalaliMonthDay(0, j3)
    IN  <<jy, md[1], md[2]>>

\* the Gregorian date of day index d: day 0 is 2023-03-21 (days 0..10 stay in March)
GregorianOf(d) == <<2023, 3, 21 + d>>

\* date.weekday(), 0 = Monday; 2023-03-21 is a Tuesday
WeekdayOf(d) == (1 + d) % 7

\* ------------------------------------------------------------------ lines
\* A line of a log file.  kind "seg": 'az START ta END -- moddat: DUR';
\* kind "sum": 'WEEKDAY JDAY JMONTH -- DUR majmu'.  Fields a kind does not
\* have are empty.
Line(kind, start, end, weekday, jday, jmonth, dur) ==
    [kind |-> kind, start |-> start, end |-> end,
     weekday |-> weekday, jday |-> jday, jmonth |-> jmonth, dur |-> dur]

NoLine == Line("none", <<>>, <<>>, -1, <<>>, -1, <<>>)

\* the marker word of a segment line is in the line
HasDurationMarker(line) == line.kind = "seg"
\* the marker word of a summary line is in the line
HasSummaryMarker(line) == line.kind = "sum"

\* parse_duration_to_seconds: the token after the marker, as seconds
DurationOfToken_noseconds(tok) ==
    LET token == _to_ascii_digits(tok)
        parts == SplitColon(token)
    IN  IF Len(parts) \in {2, 3} /\ \A i \in 1..Len(parts) : IsInt(parts[i])
        THEN IntOf(parts[1]) * SecPerHour + IntOf(parts[2]) * SecPerMin
        ELSE 0

DurationOfToken(tok) ==
    LET token == _to_ascii_digits(tok)
        parts == SplitColon(token)
    IN  IF Len(parts) = 3
        THEN IF \A i \in 1..3 : IsInt(parts[i])
             THEN IntOf(parts[1]) * SecPerHour + IntOf(parts[2]) * SecPerMin
                  + IntOf(parts[3])
             ELSE 0
        ELSE IF Len(parts) = 2
        THEN IF \A i \in 1..2 : IsInt(parts[i])
             THEN IntOf(parts[1]) * SecPerHour + IntOf(parts[2]) * SecPerMin
             ELSE 0
        ELSE 0

parse_duration_to_seconds(line) ==
    IF ~HasDurationMarker(line) THEN 0
    ELSE IF Len(line.dur) = 0 THEN 0
    ELSE DurationOfToken(line.dur)

\* a file is the sequence of its lines; a file that does not exist has none
FileExists(f) == Len(f) > 0

RECURSIVE SumDurations(_)
SumDurations(f) ==
    IF Len(f) = 0 THEN 0
    ELSE SumDurations(SubSeq(f, 1, Len(f) - 1)) + parse_duration_to_seconds(f[Len(f)])

compute_total_seconds_for_file(f) ==
    IF ~FileExists(f) THEN 0 ELSE SumDurations(f)

\* write_line: append one line to the file
write_line(f, line) == Append(f, line)

persian_date_str(d) ==
    LET g == GregorianOf(d)
        j == gregorian_to_jalali(g[1], g[2], g[3])
    IN  [weekday |-> WeekdayOf(d), jday |-> PERSIAN_DIGITS(DecStr(j[3])), jmonth |-> j[2]]

\* _log_single_segment: the duration written, floored at one second
SegmentDuration_nofloor(start_dt, end_dt) == TimeDelta(end_dt, start_dt)

SegmentDuration(start_dt, end_dt) ==
    LET duration == TimeDelta(end_dt, start_dt)
    IN  IF LessThanOneSecond(duration) THEN [s |-> 1, us |-> 0] ELSE duration

\* _log_single_segment: the line written to the file of start_dt's day
SegmentLine(start_dt, end_dt) ==
    Line("seg", PERSIAN_DIGITS(strftime_HMS(start_dt)), PERSIAN_DIGITS(strftime_HMS(end_dt)),
         -1, <<>>, -1, fmt_hms(SegmentDuration(start_dt, end_dt), TRUE))

\* log_session_range: the end of the segment that starts at cur
EndSegment_noclip(cur, end_dt) == end_dt

EndSegment(cur, end_dt) == MinT(end_dt, NextMidnight(cur))

\* log_session_range: the loop ends when the clipped end reaches end_dt
LogDone(end_segment, end_dt) == AtOrAfter(end_segment, end_dt)

\* write_daily_summary_for: last non-empty line ('' for a missing file)
LastLine(f) == IF FileExists(f) THEN f[Len(f)] ELSE NoLine

\* write_daily_summary_for: the idempotence guard
SummaryGuard_skipmissing(last_line) == HasSummaryMarker(last_line) \/ last_line = NoLine

SummaryGuard(last_line) == HasSummaryMarker(last_line)

\* write_daily_summary_for: the summary line
SummaryLine(date_obj, total_seconds) ==
    LET label == persian_date_str(date_obj)
    IN  Line("sum", <<>>, <<>>, label.weekday, label.jday, label.jmonth,
             fmt_hms([s |-> total_seconds, us |-> 0], TRUE))

\* ------------------------------------------------------------------ state
VARIABLES
    clock,          \* the local wall clock, dt.datetime.now()
    files,          \* files[d]: the lines of the log file of day d
    phase,          \* "running", "closing" (web: quit served, shutdown pending),
                    \* "tk_closed" (--force-tk: run_tkinter_ui has returned to main),
                    \* "returning" (the shell's last handler has returned and
                    \* main() is on its way out: the daemon threads still run),
                    \* "stopped"
    ui,             \* the presentation shell in use: "tk", "tk_forced" (the Tk shell
                    \* under --force-tk) or "web"
    active,         \* STATE.active / TinyTransparent.active
    session_start,  \* STATE.session_start / TinyTransparent.session_start
    lock,           \* STATE.lock is held
    sh_pc,          \* the shell thread: "idle", "log", "log_ret", "sum_total", "sum_last",
                    \* "sum_write", "done"
    sh_op,          \* the handler the shell thread is in
    sh_cur,         \* log_session_range: cur
    sh_end,         \* log_session_range: end_dt
    sh_date,        \* write_daily_summary_for: date_obj
    sh_total,       \* write_daily_summary_for: total_seconds
    mw_pc,          \* _midnight_worker: "loop", "wait", "call", "sum_total", "sum_last",
                    \* "sum_write", "exit"
    mw_wake,        \* _midnight_worker: tomorrow, the reading of the wall clock at
                    \* which the timeout of its wait ends
    mw_date,        \* _midnight_worker: the date_obj of its summary
    mw_total,       \* _midnight_worker: total_seconds of its summary
    stop,           \* _stop_midnight is set
    mw_last,        \* history: the date of the worker's last summary call, -1 if none
    mw_failed,      \* history: the date of the worker's last failed summary call, -1 if none
    mw2_pc,         \* the _midnight_worker thread started by a second
                    \* start_midnight_summary_thread call: "none" while there is none
    mw2_wake,       \* second _midnight_worker: tomorrow, the reading at which its
                    \* timeout ends
    mw2_date,       \* second _midnight_worker: the date_obj of its summary
    mw2_total,      \* second _midnight_worker: total_seconds of its summary
    fn_arg,         \* the argument of the pure function under test
    fn_res,         \* its result
    sess_id,        \* history: the number of the session opened last
    logged,         \* history: logged[i] = log_session_range calls made for session i
    call,           \* history: the last log_session_range call and the segments it wrote
    sumcalls,       \* history: summarize(date) calls completed (SpecSum)
    before,         \* history: files at the start of the last summarize(date) call
    sh_logged,      \* history: the handler the shell thread is in has called log_session_range
    shut,           \* history: the shutdown path that completed last
    set_backs       \* history: the number of times the wall clock has been set back

vars == <<clock, files, phase, ui, active, session_start, lock,
          sh_pc, sh_op, sh_cur, sh_end, sh_date, sh_total,
          mw_pc, mw_wake, mw_date, mw_total, stop, mw_last, mw_failed,
          mw2_pc, mw2_wake, mw2_date, mw2_total, fn_arg, fn_res,
          sess_id, logged, call, sumcalls, before, sh_logged, shut, set_backs>>

shell_vars == <<sh_pc, sh_op, sh_cur, sh_end, sh_date, sh_total>>
mw2_vars == <<mw2_pc, mw2_wake, mw2_date, mw2_total>>
mw_vars == <<mw_pc, mw_wake, mw_date, mw_total, stop, mw_last, mw_failed, mw2_vars>>
fn_vars == <<fn_arg, fn_res>>
state_vars == <<active, session_start, lock>>
hist_vars == <<sess_id, logged, call, sumcalls, before, sh_logged, shut, set_backs>>

\* times of day the clock is observed at: 00:00:00 and 23:59:50
ClockOffsets == {Time(0, 0), Time(SecPerDay - 10, 0)}

\* times of day of the timestamps tried on log_session_range:
\* 00:00:00, 00:00:00.5, 00:00:05, 23:59:50, 23:59:59.5
LogOffsets == {Time(0, 0), Time(0, 500000), Time(5, 0), Time(SecPerDay - 10, 0),
               Time(SecPerDay - 1, 500000)}

\* the instants the clock is observed at, from 23:59:50 of day 0 on
StartOfRun == Time(SecPerDay - 10, 0)

ClockPoints ==
    {t \in {Time(d * SecPerDay + o.s, o.us) : d \in 0..MaxDay, o \in ClockOffsets} :
        AtOrAfter(t, StartOfRun)}

LogPoints == {Time(d * SecPerDay + o.s, o.us) : d \in 0..MaxLogDay, o \in LogOffsets}

MaxOf(a, b) == IF a > b THEN a ELSE b

Days == 0..MaxOf(MaxOf(MaxDay, MaxLogDay), MaxMwDay)

NoCall == [start |-> None, end |-> None, segs |-> <<>>]
NoShut == [logged |-> FALSE, date |-> -1]

NoFiles == [d \in Days |-> <<>>]

InitCommon ==
    /\ active = FALSE
    /\ session_start = None
    /\ lock = FALSE
    /\ sh_cur = None
    /\ sh_end = None
    /\ sh_date = 0
    /\ sh_total = 0
    /\ mw_pc = "loop"
    /\ mw_wake = None
    /\ mw_date = 0
    /\ mw_total = 0
    /\ stop = FALSE
    /\ mw_last = -1
    /\ mw_failed = -1
    /\ mw2_pc = "none"
    /\ mw2_wake = None
    /\ mw2_date = 0
    /\ mw2_total = 0
    /\ sess_id = 0
    /\ logged = [i \in 1..(MaxSessions + 1) |-> 0]
    /\ call = NoCall
    /\ sumcalls = 0
    /\ before = NoFiles
    /\ sh_logged = FALSE
    /\ shut = NoShut
    /\ set_backs = 0

\* no pure function is under test
NoFn == fn_arg = <<>> /\ fn_res = <<>>

\* the shells main() can run first: the Tk shell, the Tk shell under
\* --force-tk, the web shell (--force-web, or no Tk)
Shells == {"tk", "tk_forced", "web"}

\* main(): one of the shells runs; nothing is logged yet
Init ==
    /\ InitCommon
    /\ NoFn
    /\ files = NoFiles
    /\ clock = StartOfRun
    /\ phase = "running"
    /\ ui \in Shells
    /\ sh_pc = "idle"
    /\ sh_op = "none"

\* ------------------------------------------------- the shell thread's steps
\* the process runs: its daemon threads are alive
ProcessAlive == phase \in {"running", "closing", "tk_closed", "returning"}

\* httpd.serve_forever() has not ended
ServeForeverRuns == phase \in {"running", "closing"}

\* `STATE.session_start or now`
StartOrNow(ss, now) == IF ss # None THEN ss ELSE now

\* `STATE.active and STATE.session_start` / `self.active and self.session_start`
SessionOpen(a, ss) == a /\ ss # None

\* the session state after the handler's log_session_range call has returned
AfterLogState(op, a, ss) ==
    IF op \in {"quit", "finally"} THEN [active |-> FALSE, session_start |-> None]
    ELSE IF op = "tk_toggle" THEN [active |-> a, session_start |-> None]
    ELSE [active |-> a, session_start |-> ss]

\* the handler calls log_session_range(start, end)
StartLog(op, start, end) ==
    /\ sh_pc' = "log"
    /\ sh_op' = op
    /\ sh_cur' = start
    /\ sh_end' = end
    /\ sh_logged' = TRUE
    /\ call' = [start |-> start, end |-> end, segs |-> <<>>]
    /\ logged' = IF sess_id \in DOMAIN logged
                 THEN [logged EXCEPT ![sess_id] = @ + 1] ELSE logged
    /\ UNCHANGED <<sh_date, sh_total>>

\* the handler calls write_daily_summary_for(dt.date.today())
StartSummary(op) ==
    /\ sh_pc' = "sum_total"
    /\ sh_op' = op
    /\ sh_date' = DateOf(clock)
    /\ sh_total' = 0

\* one turn of the loop of log_session_range: one segment line is written.
\* After the last turn the call returns to its handler; /api/quit, the
\* finally block and exit_app go on in a step of their own (ShLogReturns)
LogStep ==
    /\ sh_pc = "log"
    /\ LET end_segment == EndSegment(sh_cur, sh_end)
           d == DateOf(sh_cur)
           line == SegmentLine(sh_cur, end_segment)
           seg == [day |-> d, s |-> sh_cur, e |-> end_segment, line |-> line]
           after == AfterLogState(sh_op, active, session_start)
       IN  /\ files' = [files EXCEPT ![d] = write_line(@, line)]
           /\ IF ~LogDone(end_segment, sh_end)
              THEN /\ sh_cur' = end_segment
                   /\ call' = [call EXCEPT !.segs = Append(@, seg)]
                   /\ UNCHANGED <<sh_pc, sh_op, sh_end, sh_date, sh_total, state_vars,
                                  sh_logged>>
              ELSE /\ sh_cur' = None
                   /\ sh_end' = None
                   /\ IF sh_op \in {"quit", "finally", "tk_exit"}
                      THEN /\ sh_pc' = "log_ret"
                           /\ call' = [call EXCEPT !.segs = Append(@, seg)]
                           /\ UNCHANGED <<state_vars, sh_op, sh_date, sh_total, sh_logged>>
                      ELSE IF sh_op = "log"
                      THEN /\ sh_pc' = "done"
                           /\ call' = [call EXCEPT !.segs = Append(@, seg)]
                           /\ UNCHANGED <<state_vars, sh_op, sh_date, sh_total, sh_logged>>
                      ELSE /\ sh_pc' = "idle"
                           /\ sh_op' = "none"
                           /\ sh_logged' = FALSE
                           /\ call' = NoCall
                           /\ active' = after.active
                           /\ session_start' = after.session_start
                           /\ lock' = FALSE
                           /\ UNCHANGED <<sh_date, sh_total>>
    /\ UNCHANGED <<fn_vars, clock, phase, ui, mw_vars, sess_id, logged, sumcalls, before,
                   shut>>
    /\ UNCHANGED set_backs

\* /api/quit, the finally block of run_web_ui and exit_app, after their
\* log_session_range call: the web shell resets STATE and releases the lock
\* (exit_app resets nothing and holds no lock); then dt.date.today() is read
\* and write_daily_summary_for is called
ShLogReturns ==
    /\ sh_pc = "log_ret"
    /\ LET after == AfterLogState(sh_op, active, session_start)
       IN  /\ active' = after.active
           /\ session_start' = after.session_start
    /\ lock' = FALSE
    /\ StartSummary(sh_op)
    /\ UNCHANGED <<fn_vars, clock, files, phase, ui, sh_cur, sh_end, mw_vars, hist_vars>>

\* write_daily_summary_for has returned to the handler sh_op; after the
\* finally block and after exit_app the main thread still has to leave
\* run_web_ui / the Tk main loop and main() before the process ends
SummaryReturns ==
    /\ sh_pc' = "idle"
    /\ sumcalls' = IF sh_op = "summarize" THEN sumcalls + 1 ELSE sumcalls
    /\ phase' = IF sh_op = "quit" THEN "closing"
                ELSE IF sh_op = "tk_exit" /\ ui = "tk_forced" THEN "tk_closed"
                ELSE IF sh_op \in {"finally", "tk_exit"} THEN "returning"
                ELSE phase
    /\ shut' = IF sh_op \in {"quit", "finally", "tk_exit"}
               THEN [logged |-> sh_logged, date |-> sh_date] ELSE shut
    /\ sh_date' = 0
    /\ sh_total' = 0
    /\ sh_op' = IF sh_op = "summarize" THEN sh_op ELSE "none"
    /\ sh_logged' = FALSE
    /\ UNCHANGED <<sh_cur, sh_end>>

\* write_daily_summary_for: total_seconds = compute_total_seconds_for_file(path)
ShSumTotal ==
    /\ sh_pc = "sum_total"
    /\ sh_total' = compute_total_seconds_for_file(files[sh_date])
    /\ sh_pc' = "sum_last"
    /\ UNCHANGED <<fn_vars, clock, files, phase, ui, state_vars, sh_op, sh_cur, sh_end, sh_date,
                   mw_vars, hist_vars>>

\* write_daily_summary_for: the last line is read and the guard decides
ShSumLast ==
    /\ sh_pc = "sum_last"
    /\ IF SummaryGuard(LastLine(files[sh_date]))
       THEN SummaryReturns
       ELSE /\ sh_pc' = "sum_write"
            /\ UNCHANGED <<phase, sumcalls, shut, sh_op, sh_cur, sh_end, sh_date, sh_total,
                           sh_logged>>
    /\ UNCHANGED <<fn_vars, clock, files, ui, state_vars, mw_vars,
                   sess_id, logged, call, before>>
    /\ UNCHANGED set_backs

\* write_daily_summary_for: the summary line is appended
ShSumWrite ==
    /\ sh_pc = "sum_write"
    /\ files' = [files EXCEPT ![sh_date] = write_line(@, SummaryLine(sh_date, sh_total))]
    /\ SummaryReturns
    /\ UNCHANGED <<fn_vars, clock, ui, state_vars, mw_vars,
                   sess_id, logged, call, before>>
    /\ UNCHANGED set_backs

\* ------------------------------------------------------------ web handlers
\* the serve_forever loop takes the next request
Serving == ui = "web" /\ ServeForeverRuns /\ sh_pc = "idle"

\* `state == 'on' and not STATE.active`
ToggleOnApplies_always(a) == TRUE

ToggleOnApplies(a) == ~a

\* `state == 'off' and STATE.active`
ToggleOffApplies(a) == a

\* Handler.do_GET, /api/toggle?state=on: what the handler does
ToggleOnRequest ==
    /\ Serving
    /\ active \/ sess_id < MaxSessions
    /\ IF ToggleOnApplies(active)
       THEN /\ active' = TRUE
            /\ session_start' = clock
            /\ sess_id' = sess_id + 1
       ELSE UNCHANGED <<active, session_start, sess_id>>
    /\ sh_op' = "none"
    /\ sh_logged' = FALSE
    /\ shut' = NoShut
    /\ call' = NoCall
    /\ UNCHANGED <<clock, files, phase, ui, lock, sh_pc, sh_cur, sh_end, sh_date, sh_total,
                   mw_vars, logged, sumcalls, before>>
    /\ UNCHANGED set_backs

\* Handler.do_GET, /api/toggle?state=on
WebToggleOn ==
    /\ ToggleOnRequest
    /\ UNCHANGED fn_vars

\* Handler.do_GET, /api/toggle?state=off: what the handler does
ToggleOffRequest ==
    /\ Serving
    /\ shut' = NoShut
    /\ IF ToggleOffApplies(active)
       THEN /\ active' = FALSE
            /\ session_start' = None
            /\ lock' = TRUE
            /\ StartLog("toggle_off", StartOrNow(session_start, clock), clock)
       ELSE /\ sh_op' = "none"
            /\ sh_logged' = FALSE
            /\ call' = NoCall
            /\ UNCHANGED <<state_vars, sh_pc, sh_cur, sh_end, sh_date, sh_total, logged>>
    /\ UNCHANGED <<clock, files, phase, ui, mw_vars, sess_id, sumcalls, before>>
    /\ UNCHANGED set_backs

\* Handler.do_GET, /api/toggle?state=off
WebToggleOff ==
    /\ ToggleOffRequest
    /\ UNCHANGED fn_vars

\* the shutdown path shared by /api/quit and the finally block of run_web_ui:
\* under the lock the open session is logged, then today is summarized
WebShutdownPath(op) ==
    /\ shut' = NoShut
    /\ IF SessionOpen(active, session_start)
       THEN /\ lock' = TRUE
            /\ StartLog(op, session_start, clock)
            /\ UNCHANGED <<active, session_start>>
       ELSE /\ StartSummary(op)
            /\ lock' = FALSE
            /\ sh_cur' = None
            /\ sh_end' = None
            /\ sh_logged' = FALSE
            /\ call' = NoCall
            /\ UNCHANGED <<active, session_start, logged>>
    /\ UNCHANGED <<fn_vars, clock, files, phase, ui, mw_vars, sess_id, sumcalls, before>>
    /\ UNCHANGED set_backs

\* Handler.do_GET, /api/quit
WebQuit ==
    /\ Serving
    /\ WebShutdownPath("quit")

\* the main thread is in serve_forever: between two requests, or in a
\* handler that has not returned
InServeForever == ui = "web" /\ ServeForeverRuns /\ sh_op # "finally"

\* run_web_ui: serve_forever ends, by server.shutdown() or by a
\* KeyboardInterrupt, and the finally block runs. The interrupt is raised
\* wherever the main thread is: a handler it cuts short is abandoned where it
\* stands (its `with STATE.lock` releases the lock, what it has not yet
\* written or reset stays so). A further interrupt, inside the finally
\* block, ends the process as a kill does and is left out.
WebFinally ==
    /\ InServeForever
    /\ WebShutdownPath("finally")

\* ------------------------------------------------------------- Tk handlers
TkReady == ui \in {"tk", "tk_forced"} /\ phase = "running" /\ sh_pc = "idle"

\* TinyTransparent.toggle_active
TkToggle ==
    /\ TkReady
    /\ active \/ sess_id < MaxSessions
    /\ shut' = NoShut
    /\ IF ~active
       THEN /\ active' = TRUE
            /\ session_start' = clock
            /\ sess_id' = sess_id + 1
            /\ sh_op' = "none"
            /\ sh_logged' = FALSE
            /\ call' = NoCall
            /\ UNCHANGED <<lock, sh_pc, sh_cur, sh_end, sh_date, sh_total, logged>>
       ELSE /\ active' = FALSE
            /\ IF session_start # None
               THEN /\ StartLog("tk_toggle", session_start, clock)
                    /\ UNCHANGED <<session_start, lock, sess_id>>
               ELSE /\ sh_op' = "none"
                    /\ sh_logged' = FALSE
                    /\ call' = NoCall
                    /\ UNCHANGED <<session_start, lock, sess_id, sh_pc, sh_cur, sh_end,
                                   sh_date, sh_total, logged>>
    /\ UNCHANGED <<fn_vars, clock, files, phase, ui, mw_vars, sumcalls, before>>
    /\ UNCHANGED set_backs

\* TinyTransparent.exit_app
TkExit ==
    /\ TkReady
    /\ shut' = NoShut
    /\ IF SessionOpen(active, session_start)
       THEN StartLog("tk_exit", session_start, clock)
       ELSE /\ StartSummary("tk_exit")
            /\ sh_logged' = FALSE
            /\ call' = NoCall
            /\ UNCHANGED <<sh_cur, sh_end, logged>>
    /\ UNCHANGED <<fn_vars, clock, files, phase, ui, state_vars, mw_vars, sess_id, sumcalls,
                   before>>
    /\ UNCHANGED set_backs

\* --------------------------------------------------------- midnight worker
\* _stop_midnight.is_set()
StopRequested_never(flag) == FALSE

StopRequested(flag) == flag

\* dt.date.today() - dt.timedelta(days=1)
Yesterday(today) == today - 1

\* the worker's write_daily_summary_for call is in progress
MwSummarizing == mw_pc \in {"sum_total", "sum_last", "sum_write"}

\* what no step of the worker changes
mw_frame == <<fn_vars, clock, files, phase, ui, state_vars, shell_vars, hist_vars, stop,
              mw2_vars>>

\* _midnight_worker: the loop condition; now and tomorrow are read, the wait begins
MwLoop ==
    /\ ProcessAlive
    /\ mw_pc = "loop"
    /\ IF StopRequested(stop)
       THEN mw_pc' = "exit" /\ mw_wake' = None
       ELSE mw_pc' = "wait" /\ mw_wake' = NextMidnight(clock)
    /\ UNCHANGED <<mw_frame, mw_date, mw_total, mw_last, mw_failed>>

\* _midnight_worker: the wait returns, on its timeout or because the stop
\* signal is set; a set signal ends the loop
MwWake ==
    /\ ProcessAlive
    /\ mw_pc = "wait"
    /\ IF StopRequested(stop) THEN TRUE ELSE AtOrAfter(clock, mw_wake)
    /\ IF StopRequested(stop)
       THEN mw_pc' = "exit" /\ mw_wake' = None
       ELSE mw_pc' = "call" /\ UNCHANGED mw_wake
    /\ UNCHANGED <<mw_frame, mw_date, mw_total, mw_last, mw_failed>>

\* _midnight_worker: write_daily_summary_for(today - 1 day) is called
MwCall ==
    /\ ProcessAlive
    /\ mw_pc = "call"
    /\ mw_date' = Yesterday(DateOf(clock))
    /\ mw_last' = Yesterday(DateOf(clock))
    /\ mw_pc' = "sum_total"
    /\ mw_wake' = None
    /\ UNCHANGED <<mw_frame, mw_total, mw_failed>>

MwSumTotal ==
    /\ ProcessAlive
    /\ mw_pc = "sum_total"
    /\ mw_total' = compute_total_seconds_for_file(files[mw_date])
    /\ mw_pc' = "sum_last"
    /\ UNCHANGED <<mw_frame, mw_wake, mw_date, mw_last, mw_failed>>

MwSumLast ==
    /\ ProcessAlive
    /\ mw_pc = "sum_last"
    /\ IF SummaryGuard(LastLine(files[mw_date]))
       THEN mw_pc' = "loop" /\ mw_date' = 0 /\ mw_total' = 0
       ELSE mw_pc' = "sum_write" /\ UNCHANGED <<mw_date, mw_total>>
    /\ UNCHANGED <<mw_frame, mw_wake, mw_last, mw_failed>>

MwSumWrite ==
    /\ ProcessAlive
    /\ mw_pc = "sum_write"
    /\ files' = [files EXCEPT ![mw_date] = write_line(@, SummaryLine(mw_date, mw_total))]
    /\ mw_pc' = "loop"
    /\ mw_date' = 0
    /\ mw_total' = 0
    /\ UNCHANGED <<fn_vars, clock, phase, ui, state_vars, shell_vars, hist_vars, stop,
                   mw_wake, mw_last, mw_failed, mw2_vars>>

\* ---------------------------------------------- the second midnight worker
\* main() under --force-tk: run_tkinter_ui has returned True, the `return`
\* of the forced_tk branch belongs to `if not started`, so main() goes on to
\* its last line and calls run_web_ui() in the same process. STATE has not
\* been touched by the Tk shell; start_midnight_summary_thread() is called
\* again while the thread started by run_tkinter_ui is alive.
MainRunsWebAfterTk ==
    /\ phase = "tk_closed"
    /\ phase' = "running"
    /\ ui' = "web"
    /\ active' = FALSE
    /\ session_start' = None
    /\ lock' = FALSE
    /\ mw2_pc' = "loop"
    /\ mw2_wake' = None
    /\ mw2_date' = 0
    /\ mw2_total' = 0
    /\ UNCHANGED <<fn_vars, clock, files, shell_vars, hist_vars,
                   mw_pc, mw_wake, mw_date, mw_total, stop, mw_last, mw_failed>>

\* what no step of the second worker changes
mw2_frame == <<fn_vars, clock, files, phase, ui, state_vars, shell_vars, hist_vars,
               mw_pc, mw_wake, mw_date, mw_total, stop, mw_last, mw_failed>>

\* second _midnight_worker: the loop condition; the wait begins
Mw2Loop ==
    /\ ProcessAlive
    /\ mw2_pc = "loop"
    /\ IF StopRequested(stop)
       THEN mw2_pc' = "exit" /\ mw2_wake' = None
       ELSE mw2_pc' = "wait" /\ mw2_wake' = NextMidnight(clock)
    /\ UNCHANGED <<mw2_frame, mw2_date, mw2_total>>

\* second _midnight_worker: the wait returns
Mw2Wake ==
    /\ ProcessAlive
    /\ mw2_pc = "wait"
    /\ IF StopRequested(stop) THEN TRUE ELSE AtOrAfter(clock, mw2_wake)
    /\ IF StopRequested(stop)
       THEN mw2_pc' = "exit" /\ mw2_wake' = None
       ELSE mw2_pc' = "call" /\ UNCHANGED mw2_wake
    /\ UNCHANGED <<mw2_frame, mw2_date, mw2_total>>

\* second _midnight_worker: write_daily_summary_for(today - 1 day) is called
Mw2Call ==
    /\ ProcessAlive
    /\ mw2_pc = "call"
    /\ mw2_date' = Yesterday(DateOf(clock))
    /\ mw2_pc' = "sum_total"
    /\ mw2_wake' = None
    /\ UNCHANGED <<mw2_frame, mw2_total>>

Mw2SumTotal ==
    /\ ProcessAlive
    /\ mw2_pc = "sum_total"
    /\ mw2_total' = compute_total_seconds_for_file(files[mw2_date])
    /\ mw2_pc' = "sum_last"
    /\ UNCHANGED <<mw2_frame, mw2_wake, mw2_date>>

Mw2SumLast ==
    /\ ProcessAlive
    /\ mw2_pc = "sum_last"
    /\ IF SummaryGuard(LastLine(files[mw2_date]))
       THEN mw2_pc' = "loop" /\ mw2_date' = 0 /\ mw2_total' = 0
       ELSE mw2_pc' = "sum_write" /\ UNCHANGED <<mw2_date, mw2_total>>
    /\ UNCHANGED <<mw2_frame, mw2_wake>>

Mw2SumWrite ==
    /\ ProcessAlive
    /\ mw2_pc = "sum_write"
    /\ files' = [files EXCEPT ![mw2_date] = write_line(@, SummaryLine(mw2_date, mw2_total))]
    /\ mw2_pc' = "loop"
    /\ mw2_date' = 0
    /\ mw2_total' = 0
    /\ UNCHANGED <<fn_vars, clock, phase, ui, state_vars, shell_vars, hist_vars,
                   mw_pc, mw_wake, mw_date, mw_total, stop, mw_last, mw_failed, mw2_wake>>

\* ------------------------------------------------------------ environment
\* time passes (or the wall clock is set forward): the clock reads a later
\* instant of points
ClockPasses(points) ==
    /\ \E t \in points : Before(clock, t) /\ clock' = t
    /\ UNCHANGED <<fn_vars, files, phase, ui, state_vars, shell_vars, mw_vars, hist_vars>>

\* the timeout of a wait is a number of seconds, (tomorrow - now), counted on
\* a clock that no adjustment changes: when the wall clock is moved by shift
\* seconds, the reading at which the timeout ends moves with it (a reading
\* before 00:00:00 of day 0 is one the clock has passed in every state)
ShiftedWake(pc, wake, shift) ==
    IF pc # "wait" THEN wake
    ELSE IF wake.s + shift < 0 THEN Time(0, 0)
    ELSE Time(wake.s + shift, wake.us)

\* datetime.now() is local wall time: the wall clock is set back (a manual
\* or NTP adjustment, the end of daylight saving time) to an earlier instant
\* of points, on day 1 or later so that yesterday is never before day 0
ClockSetBackTo(points) ==
    /\ set_backs < MaxSetBacks
    /\ set_backs' = set_backs + 1
    /\ \E t \in points :
          /\ DateOf(t) >= 1
          /\ Before(t, clock)
          /\ t.us = clock.us
          /\ clock' = t
          /\ mw_wake' = ShiftedWake(mw_pc, mw_wake, t.s - clock.s)
          /\ mw2_wake' = ShiftedWake(mw2_pc, mw2_wake, t.s - clock.s)
    /\ UNCHANGED <<fn_vars, files, phase, ui, state_vars, shell_vars,
                   mw_pc, mw_date, mw_total, stop, mw_last, mw_failed,
                   mw2_pc, mw2_date, mw2_total,
                   sess_id, logged, call, sumcalls, before, sh_logged, shut>>

\* time passes
Tick == ClockPasses(ClockPoints)

\* the wall clock is set back
ClockSetBack == ClockSetBackTo(ClockPoints)

\* main() returns (after root.destroy() and the return of the Tk main loop,
\* or after the finally block of run_web_ui) and the interpreter exits: the
\* daemon worker threads end wherever they stand
ProcessEnds ==
    /\ phase = "returning"
    /\ phase' = "stopped"
    /\ UNCHANGED <<fn_vars, clock, files, ui, state_vars, shell_vars, mw_vars, hist_vars>>

\* the program is started again: main() builds a fresh shell and worker,
\* and the module's _stop_midnight Event is new and unset
Restart ==
    /\ phase = "stopped"
    /\ phase' = "running"
    /\ ui' \in Shells
    /\ active' = FALSE
    /\ session_start' = None
    /\ lock' = FALSE
    /\ sh_pc' = "idle"
    /\ sh_op' = "none"
    /\ mw_pc' = "loop"
    /\ mw_wake' = None
    /\ mw_date' = 0
    /\ mw_total' = 0
    /\ mw_last' = -1
    /\ mw_failed' = -1
    /\ mw2_pc' = "none"
    /\ mw2_wake' = None
    /\ mw2_date' = 0
    /\ mw2_total' = 0
    /\ stop' = FALSE
    /\ shut' = NoShut
    /\ sh_logged' = FALSE
    /\ call' = NoCall
    /\ UNCHANGED <<fn_vars, clock, files, sh_cur, sh_end, sh_date, sh_total,
                   sess_id, logged, sumcalls, before>>
    /\ UNCHANGED set_backs

Next ==
    \/ WebToggleOn \/ WebToggleOff \/ WebQuit \/ WebFinally
    \/ TkToggle \/ TkExit
    \/ LogStep \/ ShLogReturns \/ ShSumTotal \/ ShSumLast \/ ShSumWrite
    \/ MwLoop \/ MwWake \/ MwCall \/ MwSumTotal \/ MwSumLast \/ MwSumWrite
    \/ MainRunsWebAfterTk
    \/ Mw2Loop \/ Mw2Wake \/ Mw2Call \/ Mw2SumTotal \/ Mw2SumLast \/ Mw2SumWrite
    \/ Tick \/ ClockSetBack \/ ProcessEnds \/ Restart

Spec == Init /\ [][Next]_vars

\* ------------------------------------ log_session_range on its own (SpecLog)
InitLog ==
    /\ InitCommon
    /\ NoFn
    /\ files = NoFiles
    /\ clock = Time(0, 0)
    /\ phase = "stopped"
    /\ ui = "web"
    /\ sh_pc = "idle"
    /\ sh_op = "log"

\* log_session_range(start, end) is called once, on any two timestamps
CallLog ==
    /\ sh_op = "log"
    /\ sh_pc = "idle"
    /\ call = NoCall
    /\ \E start \in LogPoints, end \in LogPoints : StartLog("log", start, end)
    /\ UNCHANGED <<fn_vars, clock, files, phase, ui, state_vars, mw_vars, sess_id, sumcalls,
                   before, shut>>
    /\ UNCHANGED set_backs

NextLog == CallLog \/ LogStep

SpecLog == InitLog /\ [][NextLog]_vars

\* -------------------------------- write_daily_summary_for on its own (SpecSum)
\* the day whose file SpecSum summarizes
SumDay == 0

\* two segment lines the program writes: 08:00:00-08:00:30 and 23:59:50-24:00:00
SegA == SegmentLine(Time(8 * SecPerHour, 0), Time(8 * SecPerHour + 30, 0))
SegB == SegmentLine(Time(SecPerDay - 10, 0), Time(SecPerDay, 0))

\* the file content of a shape over "a", "b", "S": the segment lines as the
\* program writes them, each summary line with the total the program computes
RECURSIVE Build(_)
Build(shape) ==
    IF Len(shape) = 0 THEN <<>>
    ELSE LET pre == Build(SubSeq(shape, 1, Len(shape) - 1))
             x == shape[Len(shape)]
         IN  Append(pre, IF x = "a" THEN SegA
                         ELSE IF x = "b" THEN SegB
                         ELSE SummaryLine(SumDay, compute_total_seconds_for_file(pre)))

Shapes == UNION {[1..n -> {"a", "b", "S"}] : n \in 0..MaxLines}

InitSum ==
    /\ InitCommon
    /\ NoFn
    /\ \E shape \in Shapes : files = [NoFiles EXCEPT ![SumDay] = Build(shape)]
    /\ clock = Time(0, 0)
    /\ phase = "stopped"
    /\ ui = "web"
    /\ sh_pc = "idle"
    /\ sh_op = "summarize"

\* write_daily_summary_for(date) is called, at most twice in succession
CallSummarize ==
    /\ sh_op = "summarize"
    /\ sh_pc = "idle"
    /\ sumcalls < 2
    /\ before' = files
    /\ sh_pc' = "sum_total"
    /\ sh_date' = SumDay
    /\ UNCHANGED <<fn_vars, clock, files, phase, ui, state_vars, sh_op, sh_cur, sh_end, sh_total,
                   mw_vars, sess_id, logged, call, sumcalls, sh_logged, shut>>
    /\ UNCHANGED set_backs

NextSum == CallSummarize \/ ShSumTotal \/ ShSumLast \/ ShSumWrite

SpecSum == InitSum /\ [][NextSum]_vars

\* ------------------------------------- the midnight worker on its own (SpecMw)
\* the instants the clock of SpecMw is observed at
MwPoints == {Time(d * SecPerDay + o.s, o.us) : d \in 0..MaxMwDay, o \in ClockOffsets}

\* the worker runs in a live process; every day's file holds a segment line,
\* or none does (a summarize call reads and writes its own day's file only)
InitMw ==
    /\ InitCommon
    /\ NoFn
    /\ \E withSeg \in {{}, 0..MaxMwDay} :
          files = [d \in Days |-> IF d \in withSeg THEN <<SegA>> ELSE <<>>]
    /\ clock = Time(0, 0)
    /\ phase = "running"
    /\ ui = "web"
    /\ sh_pc = "idle"
    /\ sh_op = "none"

\* `except Exception: pass`: where the worker continues after a failure
AfterFailure_exit == "exit"

AfterFailure == "loop"

\* write_daily_summary_for raises in the worker (the file cannot be read or
\* written); nothing is written
MwSumFail ==
    /\ MwSummarizing
    /\ mw_failed' = mw_date
    /\ mw_pc' = AfterFailure
    /\ mw_date' = 0
    /\ mw_total' = 0
    /\ UNCHANGED <<mw_frame, mw_wake, mw_last>>

\* _stop_midnight.set(): the stop signal is given
SetStop ==
    /\ ~stop
    /\ stop' = TRUE
    /\ UNCHANGED <<fn_vars, clock, files, phase, ui, state_vars, shell_vars, hist_vars,
                   mw_pc, mw_wake, mw_date, mw_total, mw_last, mw_failed, mw2_vars>>

\* time passes in SpecMw; the worker is scheduled whenever the system likes
TickMw == ClockPasses(MwPoints)

\* the wall clock of SpecMw is set back
ClockSetBackMw == ClockSetBackTo(MwPoints)

NextMw ==
    \/ MwLoop \/ MwWake \/ MwCall \/ MwSumTotal \/ MwSumLast \/ MwSumWrite
    \/ MwSumFail \/ SetStop \/ TickMw \/ ClockSetBackMw

SpecMw == InitMw /\ [][NextMw]_vars

\* the worker thread is scheduled: a step it can take is taken
MwFairness ==
    /\ WF_vars(MwLoop) /\ WF_vars(MwWake) /\ WF_vars(MwCall)
    /\ WF_vars(MwSumTotal) /\ WF_vars(MwSumLast) /\ WF_vars(MwSumWrite)

SpecMwFair == InitMw /\ [][NextMw]_vars /\ MwFairness

\* ------------------------------------------- the pure functions on their own
\* the program at rest: no shell runs, no call is in progress
InitIdle ==
    /\ InitCommon
    /\ files = NoFiles
    /\ clock = Time(0, 0)
    /\ phase = "stopped"
    /\ ui = "web"
    /\ sh_pc = "idle"
    /\ sh_op = "none"

prog_vars == <<clock, files, phase, ui, state_vars, shell_vars, mw_vars, hist_vars>>

\* a segment line whose duration token is dur
LineWithDuration(dur) == Line("seg", <<>>, <<>>, -1, <<>>, -1, dur)

\* ---- fmt_hms, fmt_hm and parse_duration_to_seconds (SpecFmt)
FmtHours == {0, 1, 9, 10, 23, 24, MaxFmtHours - 1, MaxFmtHours}

\* the second counts tried
FmtSeconds ==
    {h * SecPerHour + m * SecPerMin + sec : h \in FmtHours, m \in {0, 1, 45, 59},
                                            sec \in {0, 5, 59}}

\* fn_arg = <<x, fa>>: fmt_hms / fmt_hm of timedelta(seconds=x), in Persian digits or not
InitFmt ==
    /\ InitIdle
    /\ fn_arg \in {<<x, fa>> : x \in FmtSeconds, fa \in BOOLEAN}
    /\ fn_res = <<>>

\* the duration is rendered in the current and in the legacy format
Format ==
    /\ Len(fn_res) = 0
    /\ LET td == [s |-> fn_arg[1], us |-> 0]
       IN  fn_res' = <<[hms |-> fmt_hms(td, fn_arg[2]), hm |-> fmt_hm(td, fn_arg[2])]>>
    /\ UNCHANGED <<fn_arg, prog_vars>>

\* the lines with the two renderings are parsed
ParseBack ==
    /\ Len(fn_res) = 1
    /\ fn_res' = Append(fn_res,
                        [hms |-> parse_duration_to_seconds(LineWithDuration(fn_res[1].hms)),
                         hm |-> parse_duration_to_seconds(LineWithDuration(fn_res[1].hm))])
    /\ UNCHANGED <<fn_arg, prog_vars>>

NextFmt == Format \/ ParseBack

SpecFmt == InitFmt /\ [][NextFmt]_vars

\* ---- gregorian_to_jalali (SpecJalali)
FirstYears == {1600, 1700, 2000, 2023, 2099}

JalaliYears == UNION {y..(y + MaxYears) : y \in FirstYears}

\* the days of month g_m of the Gregorian year g_y
GregorianMonthLength(g_y, g_m) ==
    IF g_m = 2 /\ IsGregorianLeap(g_y) THEN 29 ELSE g_days_in_month[g_m]

\* the valid Gregorian dates of the years tried
GregorianDates ==
    {date \in JalaliYears \X (1..12) \X (1..31) :
        date[3] <= GregorianMonthLength(date[1], date[2])}

InitJalali ==
    /\ InitIdle
    /\ fn_arg \in GregorianDates
    /\ fn_res = <<>>

Convert ==
    /\ Len(fn_res) = 0
    /\ fn_res' = <<gregorian_to_jalali(fn_arg[1], fn_arg[2], fn_arg[3])>>
    /\ UNCHANGED <<fn_arg, prog_vars>>

NextJalali == Convert

SpecJalali == InitJalali /\ [][NextJalali]_vars

\* ---- parse_duration_to_seconds on any line (SpecParse)
\* the characters of the tokens tried: 1, Persian 2, colon, minus, x
TokenChars == {AsciiZero + 1, PersianZero + 2, Colon, Minus, LetterX}

Tokens == UNION {[1..n -> TokenChars] : n \in 0..MaxTokenLen}

\* lines with the duration marker and any token after it (none when the
\* token is empty), and lines without the marker
ParseLines ==
    {LineWithDuration(t) : t \in Tokens}
        \cup {Line("sum", <<>>, <<>>, 1, <<>>, 1, t) : t \in Tokens}
        \cup {NoLine}

InitParse ==
    /\ InitIdle
    /\ fn_arg \in ParseLines
    /\ fn_res = <<>>

\* the line is parsed, alone and as the second line of a file
ParseLine ==
    /\ Len(fn_res) = 0
    /\ fn_res' = <<parse_duration_to_seconds(fn_arg),
                   compute_total_seconds_for_file(<<SegA, fn_arg>>)>>
    /\ UNCHANGED <<fn_arg, prog_vars>>

NextParse == ParseLine

SpecParse == InitParse /\ [][NextParse]_vars

\* ---------------------------------- the web toggle handler on its own (SpecWeb)
\* fn_arg: the request served last and the state it found
Request(req, now) ==
    [req |-> req, now |-> now, active |-> active, session_start |-> session_start,
     files |-> files]

\* what a log file holds when the program starts: nothing, a segment line,
\* or a segment line and the summary line of an earlier run
WebShapes == {<<>>, <<"a">>, <<"a", "S">>}

\* the web shell serves; no request has come yet
InitWeb ==
    /\ InitCommon
    /\ \E shape \in WebShapes : files = [NoFiles EXCEPT ![SumDay] = Build(shape)]
    /\ clock = StartOfRun
    /\ phase = "running"
    /\ ui = "web"
    /\ sh_pc = "idle"
    /\ sh_op = "none"
    /\ fn_arg = [req |-> "none", now |-> None, active |-> FALSE, session_start |-> None,
                 files |-> files]
    /\ fn_res = <<>>

\* /api/toggle?state=on is served
ServeToggleOn ==
    /\ ToggleOnRequest
    /\ fn_arg' = Request("on", clock)
    /\ UNCHANGED fn_res

\* /api/toggle?state=off is served
ServeToggleOff ==
    /\ ToggleOffRequest
    /\ fn_arg' = Request("off", clock)
    /\ UNCHANGED fn_res

NextWeb == ServeToggleOn \/ ServeToggleOff \/ LogStep \/ Tick \/ ClockSetBack

SpecWeb == InitWeb /\ [][NextWeb]_vars

\* ================================================================= claims
SummaryIndexes(f) == {i \in 1..Len(f) : HasSummaryMarker(f[i])}
SegmentIndexes(f) == {i \in 1..Len(f) : HasDurationMarker(f[i])}

\* the text 0:00:00
ZeroHMS == <<AsciiZero, Colon, AsciiZero, AsciiZero, Colon, AsciiZero, AsciiZero>>

\* the total a summary line shows, in seconds
SummaryTotal(line) == DurationOfToken(line.dur)

\* C1: every day's log file contains at most one summary line.
C1_AtMostOneSummary ==
    \A d \in Days : Cardinality(SummaryIndexes(files[d])) <= 1

\* C2: a log file that contains a summary line has it as its last line:
\* no segment line follows a summary line.
C2_SummaryIsLast ==
    \A d \in Days :
        SummaryIndexes(files[d]) # {} => HasSummaryMarker(files[d][Len(files[d])])

\* C3: for any file content, after two successive summarize calls the file
\* holds exactly one summary line and the second call changed nothing.
C3_Idempotent ==
    (sh_op = "summarize" /\ sumcalls = 2 /\ sh_pc = "idle")
        => /\ Cardinality(SummaryIndexes(files[SumDay])) = 1
           /\ files = before

\* C4 as stated: summarizing a day whose file does not exist creates no file.
C4_MissingFileNoOp ==
    (sh_op = "summarize" /\ sumcalls = 1 /\ sh_pc = "idle" /\ ~FileExists(before[SumDay]))
        => ~FileExists(files[SumDay])

\* C4 amended: summarizing a day whose file does not exist creates the file
\* with exactly one line, a summary line whose total is zero.
C4_MissingFileZeroSummary ==
    (sh_op = "summarize" /\ sumcalls = 1 /\ sh_pc = "idle" /\ ~FileExists(before[SumDay]))
        => /\ Len(files[SumDay]) = 1
           /\ HasSummaryMarker(files[SumDay][1])
           /\ SummaryTotal(files[SumDay][1]) = 0
           /\ files[SumDay][1].dur = PERSIAN_DIGITS(ZeroHMS)

C4_Witness ==
    /\ sh_op = "summarize" /\ sumcalls = 1 /\ sh_pc = "idle"
    /\ ~FileExists(before[SumDay])
    /\ FileExists(files[SumDay])

\* C5: each active interval (one toggle-on) is passed to log_session_range
\* at most once, whatever the order of toggle, quit and shutdown.
C5_LoggedAtMostOnce ==
    \A i \in 1..MaxSessions : logged[i] <= 1

\* ---- the last log_session_range call, once it has returned (SpecLog)
LogReturned == sh_op = "log" /\ sh_pc = "done"

\* the local midnights strictly between start and end
Midnights(start, end) ==
    {k \in 1..(MaxLogDay + 1) :
        /\ Before(start, Time(k * SecPerDay, 0))
        /\ Before(Time(k * SecPerDay, 0), end)}

RECURSIVE SumSegs(_)
SumSegs(segs) ==
    IF Len(segs) = 0 THEN 0
    ELSE SumSegs(SubSeq(segs, 1, Len(segs) - 1))
         + parse_duration_to_seconds(segs[Len(segs)].line)

\* the whole seconds of a segment's length, at least one
WrittenSeconds(seg) ==
    LET td == TimeDelta(seg.e, seg.s) IN IF td.s < 1 THEN 1 ELSE td.s

\* C6: log_session_range(start, end) with end >= start writes N + 1 segment
\* lines, N the number of midnights crossed: one line in the file of each
\* of the N + 1 consecutive days from start's day on, and nothing else.
C6_OneLinePerDay ==
    (LogReturned /\ AtOrAfter(call.end, call.start)) =>
        LET n == Cardinality(Midnights(call.start, call.end))
            d0 == DateOf(call.start)
        IN  /\ Len(call.segs) = n + 1
            /\ \A k \in 1..(n + 1) : call.segs[k].day = d0 + k - 1
            /\ \A d \in Days :
                  IF d \in d0..(d0 + n)
                  THEN Len(files[d]) = 1 /\ HasDurationMarker(files[d][1])
                  ELSE Len(files[d]) = 0

\* a session that crosses two midnights has been logged
C6_Witness ==
    /\ LogReturned
    /\ Cardinality(Midnights(call.start, call.end)) = 2
    /\ Len(call.segs) = 3

\* C7 as stated: for a session that crosses midnight the durations of the
\* segment lines sum to end - start (taken in whole seconds).
C7_SumIsDifference ==
    (LogReturned /\ Midnights(call.start, call.end) # {}) =>
        SumSegs(call.segs) = TotalSecondsInt(TimeDelta(call.end, call.start))

\* C7 amended: each line shows its segment's length cut to whole seconds and
\* floored at one second; so for whole-second timestamps the durations sum to
\* end - start, and otherwise the sum is less than one second per segment
\* away from end - start.
C7_SumWithinRounding ==
    (LogReturned /\ Midnights(call.start, call.end) # {}) =>
        LET sum == SumSegs(call.segs)
            td == TimeDelta(call.end, call.start)
            n == Len(call.segs)
        IN  /\ \A k \in 1..n :
                  parse_duration_to_seconds(call.segs[k].line) = WrittenSeconds(call.segs[k])
            /\ (call.start.us = 0 /\ call.end.us = 0) => sum = td.s
            /\ sum >= td.s - (n - 1)
            /\ sum <= td.s + (IF td.us > 0 THEN n ELSE n - 1)

\* the test's session, 23:59:50 to 00:00:05: 10 seconds and 5 seconds
C7_Witness ==
    /\ LogReturned
    /\ call.start = Time(SecPerDay - 10, 0)
    /\ call.end = Time(SecPerDay + 5, 0)
    /\ compute_total_seconds_for_file(files[0]) = 10
    /\ compute_total_seconds_for_file(files[1]) = 5

\* C8 as stated: both timestamps of every segment line fall on the day of
\* the file the line is written to.
C8_BothOnFileDay ==
    (sh_op = "log" /\ AtOrAfter(call.end, call.start)) =>
        \A k \in 1..Len(call.segs) :
            /\ DateOf(call.segs[k].s) = call.segs[k].day
            /\ DateOf(call.segs[k].e) = call.segs[k].day

\* C8 amended: the start of every segment line falls on the day of its file,
\* and the end falls on that day or is the midnight that ends it (written as
\* 00:00:00), which is where a segment is clipped.
C8_EndOnDayOrMidnight ==
    (sh_op = "log" /\ AtOrAfter(call.end, call.start)) =>
        \A k \in 1..Len(call.segs) :
            LET seg == call.segs[k] IN
            /\ DateOf(seg.s) = seg.day
            /\ AtOrAfter(seg.e, seg.s)
            /\ \/ DateOf(seg.e) = seg.day
               \/ /\ seg.e = Time((seg.day + 1) * SecPerDay, 0)
                  /\ seg.line.end = PERSIAN_DIGITS(<<AsciiZero, AsciiZero, Colon, AsciiZero,
                                                     AsciiZero, Colon, AsciiZero, AsciiZero>>)

\* a segment clipped at midnight has been written
C8_Witness ==
    /\ LogReturned
    /\ Len(call.segs) >= 2
    /\ call.segs[1].e = NextMidnight(call.segs[1].s)

\* C9: no segment line shows a zero duration; a call with end <= start
\* writes one segment line, and it shows one second.
C9_NeverZero ==
    /\ \A d \in Days : \A i \in SegmentIndexes(files[d]) :
           parse_duration_to_seconds(files[d][i]) >= 1
    /\ (LogReturned /\ AtOrAfter(call.start, call.end)) =>
           /\ Len(call.segs) = 1
           /\ files[DateOf(call.start)] = <<call.segs[1].line>>
           /\ parse_duration_to_seconds(call.segs[1].line) = 1

\* a session whose end is before its start has been logged
C9_Witness ==
    /\ LogReturned
    /\ Before(call.end, call.start)
    /\ Len(call.segs) = 1

\* ---- the shutdown path (Spec)
\* the segment line written last by the shutdown path's log_session_range call
FinalSegment == call.segs[Len(call.segs)]

\* line occurs in f before f's last line
CountedBeforeLast(f, line) == \E i \in 1..(Len(f) - 1) : f[i] = line

\* what holds of the session state and of today's summary after a shutdown
\* path that found a session open
ShutdownLoggedAndSummarized ==
    LET f == files[shut.date] IN
    /\ \A i \in 1..sess_id : logged[i] = 1
    /\ ui = "web" => (~active /\ session_start = None)
    /\ FileExists(f)
    /\ HasSummaryMarker(f[Len(f)])
    /\ SummaryTotal(f[Len(f)]) = compute_total_seconds_for_file(f)

\* C10 as stated: a shutdown with a session open logs the interval exactly
\* once and then summarizes today; no session stays open and unlogged, and
\* the summary written for today includes the final interval.
C10_SummaryIncludesFinal ==
    shut.logged =>
        /\ ShutdownLoggedAndSummarized
        /\ FinalSegment.day = shut.date
        /\ CountedBeforeLast(files[shut.date], FinalSegment.line)

\* C10 at its weakest: a shutdown with a session open logs the interval
\* exactly once and then summarizes today; no session stays open and
\* unlogged, and the summary written for today counts every segment of the
\* final interval written to today's file (the final segment is in an
\* earlier day's file when the interval ends at a midnight or midnight
\* passes between the log and the reading of today's date).
C10_SummaryIncludesTodaysPart ==
    shut.logged =>
        /\ ShutdownLoggedAndSummarized
        /\ FinalSegment.day <= shut.date
        /\ \A k \in 1..Len(call.segs) :
              call.segs[k].day = shut.date
                  => CountedBeforeLast(files[shut.date], call.segs[k].line)

\* ---- the midnight worker and the shell (Spec)
\* C11: while the worker summarizes a day, a log_session_range call of the
\* shell that is in progress appends to the file of another day.
C11_DifferentDayFiles ==
    (MwSummarizing /\ sh_pc = "log") => DateOf(sh_cur) # mw_date

\* C12: once the shutdown path's summarize(D) and the worker's summarize(D)
\* have both returned, however their steps were interleaved, the file of
\* day D holds exactly one summary line.
C12_OneSummaryWhenCoinciding ==
    (shut # NoShut /\ mw_last = shut.date /\ mw_pc \in {"loop", "wait", "exit"})
        => Cardinality(SummaryIndexes(files[shut.date])) = 1

\* ---- the midnight workers (Spec)
\* the worker calls write_daily_summary_for in this step
MwCalls == mw_pc = "call" /\ mw_pc' = "sum_total"

\* the second worker calls write_daily_summary_for in this step
Mw2Calls == mw2_pc = "call" /\ mw2_pc' = "sum_total"

\* the worker starts a cycle in this step: it enters its wait
MwStartsCycle == mw_pc = "loop" /\ mw_pc' = "wait"

\* the first local midnight after t
MidnightAfter(t) == Time((DateOf(t) + 1) * SecPerDay, 0)

C13_Step ==
    /\ MwCalls =>
          /\ mw_date' = DateOf(clock) - 1
          /\ (set_backs = 0 /\ mw_last # -1) => mw_date' > mw_last
    /\ Mw2Calls =>
          /\ mw2_date' = DateOf(clock) - 1
          /\ set_backs = 0 => mw2_date' # mw_last
    /\ MwStartsCycle => mw_wake' = MidnightAfter(clock)

\* C13 at its weakest: while the wall clock is not set back, summarize is
\* called at most once for the midnight that ended a day (no worker thread
\* of the process calls for a day for which a call has been made), each call
\* is for the day before the current one, and each cycle waits for the next
\* midnight.
C13_OncePerMidnight == [][C13_Step]_vars

\* ---- the midnight worker (SpecMw)
\* C14 as stated: once the stop signal is set the worker calls summarize no
\* more and starts no cycle, and it terminates.
C14_NoCallAfterStop ==
    /\ [][stop => (~MwCalls /\ ~MwStartsCycle)]_vars
    /\ stop ~> (mw_pc = "exit")

C14_Step ==
    (stop /\ mw_pc' # mw_pc) =>
        CASE mw_pc \in {"loop", "wait"} -> mw_pc' = "exit"
          [] mw_pc = "call" -> mw_pc' = "sum_total"
          [] mw_pc = "sum_total" -> mw_pc' \in {"sum_last", "loop"}
          [] mw_pc = "sum_last" -> mw_pc' \in {"sum_write", "loop"}
          [] mw_pc = "sum_write" -> mw_pc' = "loop"
          [] OTHER -> FALSE

\* C14 amended: once the stop signal is set, a worker that waits or is about
\* to start a cycle terminates without calling summarize; a worker that has
\* already passed its stop check makes that one call, or finishes the call
\* it is in, and then terminates; no cycle starts, and the worker terminates.
C14_StopsAfterCurrentCall ==
    /\ [][C14_Step]_vars
    /\ stop ~> (mw_pc = "exit")

\* the stop signal ended the worker's first wait: it has terminated before
\* the first midnight, without a summarize call
C14_Witness ==
    /\ stop /\ mw_pc = "exit"
    /\ mw_last = -1
    /\ Before(clock, Time(SecPerDay, 0))

\* the worker's summarize call fails in this step
MwFails == MwSummarizing /\ mw_failed' # mw_failed

C15_NextDay_Step ==
    /\ MwFails => (mw_pc' = "loop" /\ files' = files /\ mw_failed' = mw_date)
    /\ MwCalls => mw_date' = DateOf(clock) - 1
    /\ (MwCalls /\ mw_failed # -1) => mw_date' # mw_failed
    /\ MwStartsCycle => mw_wake' = MidnightAfter(clock)

C15_Step ==
    /\ MwFails => (mw_pc' = "loop" /\ files' = files /\ mw_failed' = mw_date)
    /\ MwCalls => mw_date' = DateOf(clock) - 1
    /\ (MwCalls /\ mw_failed # -1 /\ set_backs = 0) => mw_date' > mw_failed
    /\ MwStartsCycle => mw_wake' = MidnightAfter(clock)

C16_RoundTrip ==
    Len(fn_res) = 2 =>
        /\ fn_res[2].hms = fn_arg[1]
        /\ fn_res[2].hm = (fn_arg[1] \div SecPerMin) * SecPerMin

\* the largest duration tried, 59 minutes and 59 seconds over MaxFmtHours
\* hours, went through both formats in Persian digits
C16_Witness ==
    /\ Len(fn_res) = 2
    /\ fn_arg = <<MaxFmtHours * SecPerHour + 59 * SecPerMin + 59, TRUE>>
    /\ \A i \in 1..Len(fn_res[1].hms) : ~IsAsciiDigit(fn_res[1].hms[i])
    /\ fn_res[2].hms = fn_arg[1]
    /\ fn_res[2].hm = fn_arg[1] - 59

\* C17: 2023-03-21 is 1 Farvardin 1402, and every valid date from 1600-01-01
\* on has a Jalali month in 1..12 and a Jalali day in 1..31.
C17_JalaliInRange ==
    Len(fn_res) = 1 =>
        /\ fn_res[1][2] \in 1..12
        /\ fn_res[1][3] \in 1..31
        /\ fn_arg = <<2023, 3, 21>> => fn_res[1] = <<1402, 1, 1>>

C17_Witness ==
    /\ fn_arg = <<2023, 3, 21>>
    /\ fn_res = <<(<<1402, 1, 1>>)>>

\* an optional sign and digits, ASCII or Persian
IsSignedNumber(str) ==
    \E k \in {0, 1} :
        /\ Len(str) > k
        /\ k = 1 => str[1] \in {Plus, Minus}
        /\ \A i \in (k + 1)..Len(str) : IsAsciiDigit(str[i]) \/ IsPersianDigit(str[i])

\* the token after the marker splits at its colons into 2 or 3 integer fields
WellFormedToken(tok) ==
    /\ Cardinality({i \in 1..Len(tok) : tok[i] = Colon}) \in {1, 2}
    /\ \A i \in 1..Len(SplitColon(tok)) : IsSignedNumber(SplitColon(tok)[i])

\* C18: a line without the duration marker, without a token after it, or
\* with a token that is not 2 or 3 integer fields parses to 0 and adds
\* nothing to the total of a file.
C18_MalformedIsZero ==
    (Len(fn_res) = 2 /\ (~HasDurationMarker(fn_arg) \/ ~WellFormedToken(fn_arg.dur))) =>
        /\ fn_res[1] = 0
        /\ fn_res[2] = parse_duration_to_seconds(SegA)

\* the line whose token is 1:x has been parsed
C18_Witness ==
    /\ fn_arg = LineWithDuration(<<AsciiZero + 1, Colon, LetterX>>)
    /\ fn_res = <<0, 30>>

\* ---- summaries and shell calls (Spec)
\* a summary line is appended to the file of day d in this step
SummaryAppended(d) ==
    /\ Len(files'[d]) = Len(files[d]) + 1
    /\ HasSummaryMarker(files'[d][Len(files'[d])])

C19_Step ==
    \A d \in Days :
        SummaryAppended(d) =>
            /\ SummaryTotal(files'[d][Len(files'[d])]) = SumDurations(files[d])
            /\ SumDurations(files'[d]) = SumDurations(files[d])

\* C19: a summary line shows, when it is appended, the sum of the durations
\* of the segment lines then in the file; summary lines add nothing to it.
C19_TotalAtAppend == [][C19_Step]_vars

\* ---- the shells' log_session_range calls (Spec)
\* C20: every log_session_range call of a shell has end >= start.
C20_EndNotBeforeStart ==
    call # NoCall => AtOrAfter(call.end, call.start)

\* ---- the web toggle handler (SpecWeb)
\* C21: after a toggle-on request that found a session active, the active
\* flag and the session start are what they were; after a toggle-off request
\* that found no session active, the state is what it was, no log call has
\* been made and no file has changed.
C21_RedundantToggleNoOp ==
    /\ (fn_arg.req = "on" /\ fn_arg.active) =>
          /\ active = fn_arg.active
          /\ session_start = fn_arg.session_start
          /\ files = fn_arg.files
    /\ (fn_arg.req = "off" /\ ~fn_arg.active) =>
          /\ active = fn_arg.active
          /\ session_start = fn_arg.session_start
          /\ files = fn_arg.files
          /\ sh_pc = "idle" /\ call = NoCall

\* a toggle-on request was served while a session begun at an earlier
\* instant was active
C21_Witness ==
    /\ fn_arg.req = "on" /\ fn_arg.active
    /\ Before(fn_arg.session_start, fn_arg.now)
    /\ active /\ session_start = fn_arg.session_start
====
